---- MODULE Spec2Model ----
(***************************************************************************)
(* A model of the try-expect engine: createExecutor, Result.or,            *)
(* Result.expect and ResultAsync, as written in the engine source.         *)
(*                                                                         *)
(* JavaScript values are records [kind, id]: kind is the sort of value     *)
(* and id names the particular value (the digits of a number, the text of  *)
(* a string, the class of an instance, the name of a function).            *)
(***************************************************************************)
EXTENDS Integers, Sequences, FiniteSets, TLC

VARIABLES
    comp,             \* the computation handed to the Executor
    rkind,            \* "none" | "Result" | "ResultAsync": the object the Executor returned
    data,             \* Result.data
    err,              \* Result.err
    classHandlers,    \* Result.classHandlers
    undefinedHandler, \* Result.undefinedHandler
    nullHandler,      \* Result.nullHandler
    promise,          \* ResultAsync.promise: the owned computation and its settlement
    invoked,          \* how many times the supplied function has been invoked
    ncalls,           \* number of expect/or calls made on the Result so far
    registered,       \* the arguments of the registration calls made, in call order
    last,             \* what the latest call did (its arguments and its outcome)
    prev              \* what the call before the latest did

vars == <<comp, rkind, data, err, classHandlers, undefinedHandler, nullHandler,
          promise, invoked, ncalls, registered, last, prev>>

\* The number of expect/or calls one chain makes.
MaxCalls == 3

----------------------------------------------------------------------------
(* Values *)

V(k, i) == [kind |-> k, id |-> i]

Undefined == V("undefined", "")
Null      == V("null", "")
Num(s)    == V("number", s)
Str(s)    == V("string", s)
Bool(s)   == V("boolean", s)
Obj(c)    == V("object", c)      \* an instance of class c
Class(c)  == V("class", c)       \* the class (constructor) c itself
Arrow(f)  == V("function", f)    \* an arrow function named f
Pending   == V("promise", "p")   \* a native promise
Thenable  == V("thenable", "t")  \* an object with a callable then and no catch
PromiseFn == V("promiseFn", "pf") \* a function carrying a callable then and catch

\* typeof v
TypeOf(v) ==
    CASE v.kind = "undefined" -> "undefined"
      [] v.kind = "number"    -> "number"
      [] v.kind = "string"    -> "string"
      [] v.kind = "boolean"   -> "boolean"
      [] v.kind \in {"class", "function", "promiseFn"} -> "function"
      [] OTHER                -> "object"

\* ToBoolean(v), the test an if statement applies to v
Truthy(v) ==
    CASE v.kind \in {"undefined", "null"} -> FALSE
      [] v.kind = "number"  -> v.id \notin {"0", "NaN"}
      [] v.kind = "string"  -> v.id # ""
      [] v.kind = "boolean" -> v.id = "true"
      [] OTHER              -> TRUE

\* a === b
StrictEq(a, b) == a = b

\* typeof value.then === "function", typeof value.catch === "function"
HasThen(v)  == v.kind \in {"promise", "thenable", "promiseFn"}
HasCatch(v) == v.kind \in {"promise", "promiseFn"}

\* isPromise without the test of catch: any thenable counts as a promise
isPromiseThenOnly(value) ==
    /\ TypeOf(value) = "object"
    /\ ~StrictEq(value, Null)
    /\ HasThen(value)

isPromise(value) ==
    /\ TypeOf(value) = "object"
    /\ ~StrictEq(value, Null)
    /\ HasThen(value)
    /\ HasCatch(value)

isClass(value) ==
    /\ TypeOf(value) = "function"
    /\ value.kind = "class"

\* value can be called
Callable(v) == TypeOf(v) = "function"

\* the TypeError the host raises for a call of a non-function or a property
\* read on undefined
TypeErrorVal == Obj("TypeError")

----------------------------------------------------------------------------
(* Caller-context capture *)

\* A string is the sequence of its ":"-separated pieces, a stack line is the
\* sequence of its " ("-separated parts, and a stack trace is the sequence of
\* its lines, or is absent.
NoStack      == [present |-> FALSE, lines |-> <<>>]
HeaderLine   == << <<"Error">> >>
MethodLine   == << <<"    at Result.expect">>, <<"/lib/engine.ts", "211", "22)">> >>
ParenLine    == << <<"    at main">>, <<"/app/main.ts", "10", "5)">> >>
NoParenLine  == << <<"    at /app/main.ts", "20", "5">> >>
ShortStack   == [present |-> TRUE, lines |-> <<HeaderLine, MethodLine>>]
ParenStack   == [present |-> TRUE, lines |-> <<HeaderLine, MethodLine, ParenLine>>]
NoParenStack == [present |-> TRUE, lines |-> <<HeaderLine, MethodLine, NoParenLine>>]

\* Number(piece) || 0
NumberOrZero(piece) ==
    CASE piece = "10"  -> 10
      [] piece = "20"  -> 20
      [] piece = "211" -> 211
      [] OTHER         -> 0

\* new Error().stack?.split("\n")[2].split(" (")[0] raises a TypeError when the
\* trace is present and has no third line
CaptureThrows(stack) == stack.present /\ Len(stack.lines) < 3

\* new Error().stack?.split("\n")[2].split(" (")[0] ?? ""
CaptureFile(stack) ==
    IF stack.present THEN stack.lines[3][1] ELSE <<"">>

\* Number(file.split(":")[1]) || 0
CaptureLine(file) ==
    IF Len(file) >= 2 THEN NumberOrZero(file[2]) ELSE 0

Caller(stack) ==
    [file |-> CaptureFile(stack), line |-> CaptureLine(CaptureFile(stack))]

\* const ctx: Context = { caller: { line, file }, source: this.err }
NewContext(stack, source) ==
    [caller |-> Caller(stack), source |-> source, message |-> Undefined]

NoCtx == [caller |-> [file |-> <<"">>, line |-> 0], source |-> Undefined,
          message |-> Undefined]

----------------------------------------------------------------------------
(* Errors and error factories *)

\* An error value: who built it, from which Context and extra arguments.
NoErr == [by |-> "none", ctx |-> NoCtx, argz |-> <<>>]

\* the TypeError raised inside the capture
CaptureError == [by |-> "TypeError", ctx |-> NoCtx, argz |-> <<>>]

\* builder(ctx, ...argz): the Builder the Executor was created with
Builder(ctx, argz) == [by |-> "builder", ctx |-> ctx, argz |-> argz]

\* handler(ctx): a handler callback h supplied to a registration call
Handler(h, ctx) == [by |-> h.id, ctx |-> ctx, argz |-> <<>>]

\* The zero-argument closures expect stores:
\*   () => args[1](ctx)   and   () => this.builder(ctx, ...argz)
NoHandler == [set |-> FALSE, mode |-> "none", h |-> Undefined, ctx |-> NoCtx,
              argz |-> <<>>]
HandlerClosure(h, ctx) ==
    [set |-> TRUE, mode |-> "handler", h |-> h, ctx |-> ctx, argz |-> <<>>]
BuilderClosure(ctx, argz) ==
    [set |-> TRUE, mode |-> "builder", h |-> Undefined, ctx |-> ctx, argz |-> argz]

\* fn(): what a stored closure returns when it is invoked
InvokeClosure(fn) ==
    IF fn.mode = "handler" THEN Handler(fn.h, fn.ctx) ELSE Builder(fn.ctx, fn.argz)

\* v(ctx): the fallback functions a caller hands to or
CallFallback(v, ctx) ==
    IF v.id = "echoSource" THEN ctx.source ELSE Num("-1")

----------------------------------------------------------------------------
(* The Executor *)

NoPromise == [state |-> "none", val |-> Undefined]

\* new Result(builder, data, err)
NewResult(d, e) ==
    [rkind |-> "Result", data |-> d, err |-> e, promise |-> NoPromise]

\* new ResultAsync(builder, promise): super(builder) leaves data and err unset
NewResultAsync(p) ==
    [rkind |-> "ResultAsync", data |-> Undefined, err |-> Undefined,
     promise |-> [state |-> "pending", val |-> Undefined]]

\* A computation: the value fn handed to the Executor and, when fn is a
\* function, what a call of it does.
Computation(f, does, v) == [fn |-> f, does |-> does, val |-> v]

\* fn(): a call of a value that is no function raises a TypeError
CallThrows(c) == ~Callable(c.fn) \/ c.does = "throws"
CallThrown(c) == IF Callable(c.fn) THEN c.val ELSE TypeErrorVal

\* an Executor that calls the function once to test its result for a promise
\* and once more for the data
InvocationsTwice(c) == IF ~isPromise(c.fn) /\ Callable(c.fn) THEN 2 ELSE 0

\* the number of times the Executor invokes the supplied function
Invocations(c) == IF ~isPromise(c.fn) /\ Callable(c.fn) THEN 1 ELSE 0

\* the body of the try block: either a returned object or a thrown value
TryBody(c) ==
    IF isPromise(c.fn)
    THEN [threw |-> FALSE, thrown |-> Undefined, result |-> NewResultAsync(c.fn)]
    ELSE IF CallThrows(c)
    THEN [threw |-> TRUE, thrown |-> CallThrown(c), result |-> NewResult(Undefined, Undefined)]
    ELSE IF isPromise(c.val)
    THEN [threw |-> FALSE, thrown |-> Undefined, result |-> NewResultAsync(c.val)]
    ELSE [threw |-> FALSE, thrown |-> Undefined, result |-> NewResult(c.val, Undefined)]

\* the Executor without its catch clause: a throw of the computation escapes
ExecutorNoCatch(c) ==
    IF TryBody(c).threw
    THEN [propagated |-> TRUE, thrown |-> TryBody(c).thrown,
          result |-> NewResult(Undefined, Undefined)]
    ELSE [propagated |-> FALSE, thrown |-> Undefined, result |-> TryBody(c).result]

\* try { ... } catch (e) { return new Result(builder, undefined, e) }
Executor(c) ==
    IF TryBody(c).threw
    THEN [propagated |-> FALSE, thrown |-> Undefined,
          result |-> NewResult(Undefined, TryBody(c).thrown)]
    ELSE [propagated |-> FALSE, thrown |-> Undefined, result |-> TryBody(c).result]

----------------------------------------------------------------------------
(* Calls and their outcomes *)

NoCall ==
    [op |-> "none", args |-> <<>>, stack |-> NoStack, pstate |-> "none",
     outcome |-> "none", ret |-> "none", val |-> Undefined, raised |-> NoErr,
     ctx |-> NoCtx, fallbackCalls |-> 0, handlerCalls |-> 0, builderCalls |-> 0]

\* the call returned the value v
Returned(call, v) ==
    [call EXCEPT !.outcome = "return", !.ret = "value", !.val = v]

\* the call returned the Result itself (return this)
ReturnedThis(call) ==
    [call EXCEPT !.outcome = "return", !.ret = "this"]

\* the call raised e
Raised(call, e) ==
    [call EXCEPT !.outcome = "throw", !.raised = e]

\* args[i], counting from 0 as the source does
Arg(args, i) == IF i + 1 <= Len(args) THEN args[i + 1] ELSE Undefined

\* args.slice(2)
Slice2(args) == IF Len(args) >= 3 THEN SubSeq(args, 3, Len(args)) ELSE <<>>

----------------------------------------------------------------------------
(* Result.or and Result.expect *)

NewCall(op, args, stack) ==
    [NoCall EXCEPT !.op = op, !.args = args, !.stack = stack,
                   !.pstate = promise.state]

\* or with a fallback function that is evaluated before this.err is tested
OrOnEager(d, e, value, stack) ==
    LET call == NewCall("or", <<value>>, stack)
        ctx  == NewContext(stack, e)
        v    == IF TypeOf(value) = "function" THEN CallFallback(value, ctx)
                ELSE value
        made == IF TypeOf(value) = "function"
                THEN [call EXCEPT !.ctx = ctx, !.fallbackCalls = 1]
                ELSE call
    IN  IF Truthy(e) THEN Returned(made, v) ELSE Returned(made, d)

\* or(value) on a Result whose fields are this.data = d and this.err = e
OrOn(d, e, value, stack) ==
    LET call == NewCall("or", <<value>>, stack)
        ctx  == NewContext(stack, e)
    IN  IF Truthy(e)
        THEN IF TypeOf(value) = "function"
             THEN IF CaptureThrows(stack)
                  THEN Raised(call, CaptureError)
                  ELSE Returned([call EXCEPT !.ctx = ctx, !.fallbackCalls = 1],
                                CallFallback(value, ctx))
             ELSE Returned(call, value)
        ELSE Returned(call, d)

\* or(value): the outcome of the call in the current state
OrOutcome(value, stack) == OrOn(data, err, value, stack)

\* or that consumes the captured failure once it has served the fallback
OrConsuming(value, stack) ==
    /\ rkind \in {"Result", "ResultAsync"}
    /\ ncalls < MaxCalls
    /\ last' = OrOutcome(value, stack)
    /\ err' = Undefined
    /\ prev' = last
    /\ ncalls' = ncalls + 1
    /\ UNCHANGED <<comp, rkind, data, classHandlers, undefinedHandler,
                   nullHandler, promise, invoked, registered>>

Or(value, stack) ==
    /\ rkind \in {"Result", "ResultAsync"}
    /\ ncalls < MaxCalls
    /\ last' = OrOutcome(value, stack)
    /\ prev' = last
    /\ ncalls' = ncalls + 1
    /\ UNCHANGED <<comp, rkind, data, err, classHandlers, undefinedHandler,
                   nullHandler, promise, invoked, registered>>

\* the closure a registration stores: () => args[1](ctx) when the call has
\* exactly two arguments and the second is a function, otherwise
\* ctx.message = args[1]; argz = args.slice(2); () => this.builder(ctx, ...argz)
Closure(args, ctx) ==
    IF Len(args) = 2 /\ TypeOf(Arg(args, 1)) = "function"
    THEN HandlerClosure(Arg(args, 1), ctx)
    ELSE BuilderClosure([ctx EXCEPT !.message = Arg(args, 1)], Slice2(args))

\* the branch expect(...args) takes
ExpectBranch(args, stack) ==
    IF CaptureThrows(stack) THEN "throws"
    ELSE IF isClass(Arg(args, 0)) THEN "class"
    ELSE IF TypeOf(Arg(args, 0)) = "undefined" THEN "undefined"
    ELSE IF StrictEq(Str(TypeOf(Arg(args, 0))), Null) THEN "null"
    ELSE "data"

\* expect(...args) on a Result whose field this.data is d
ExpectOn(d, args, stack) ==
    LET call == NewCall("expect", args, stack)
        b    == ExpectBranch(args, stack)
    IN  IF b = "throws" THEN Raised(call, CaptureError)
        ELSE IF b \in {"class", "undefined", "null"} THEN ReturnedThis(call)
        ELSE Returned(call, d)

\* expect(...args): the outcome of the call in the current state
ExpectOutcome(args, stack) == ExpectOn(data, args, stack)

\* the two call shapes of expect: a sentinel first (undefined, null or a
\* class), or a message string first
IsRegistration(args) ==
    Len(args) >= 2 /\ Arg(args, 0).kind \in {"undefined", "null", "class"}
IsTerminal(args) ==
    Len(args) >= 1 /\ Arg(args, 0).kind = "string"

Expect(args, stack) ==
    /\ rkind \in {"Result", "ResultAsync"}
    /\ ncalls < MaxCalls
    /\ registered' = IF IsRegistration(args) /\ ~CaptureThrows(stack)
                     THEN Append(registered, args)
                     ELSE registered
    /\ LET b  == ExpectBranch(args, stack)
           fn == Closure(args, NewContext(stack, err))
       IN  /\ classHandlers' =
                 IF b = "class"
                 THEN Append(classHandlers, [cls |-> Arg(args, 0), fn |-> fn])
                 ELSE classHandlers
           /\ undefinedHandler' = IF b = "undefined" THEN fn ELSE undefinedHandler
           /\ nullHandler' = IF b = "null" THEN fn ELSE nullHandler
    /\ last' = ExpectOutcome(args, stack)
    /\ prev' = last
    /\ ncalls' = ncalls + 1
    /\ UNCHANGED <<comp, rkind, data, err, promise, invoked>>

----------------------------------------------------------------------------
(* The Executor call and the settlement of the owned promise *)

Execute(c) ==
    /\ rkind = "none"
    /\ comp' = c
    /\ rkind' = IF Executor(c).propagated THEN "thrown"
                ELSE Executor(c).result.rkind
    /\ data' = Executor(c).result.data
    /\ err' = Executor(c).result.err
    /\ promise' = Executor(c).result.promise
    /\ invoked' = invoked + Invocations(c)
    /\ last' = IF Executor(c).propagated
               THEN Raised(NewCall("execute", <<c.fn>>, NoStack), NoErr)
               ELSE ReturnedThis(NewCall("execute", <<c.fn>>, NoStack))
    /\ UNCHANGED <<classHandlers, undefinedHandler, nullHandler, ncalls,
                   registered, prev>>

\* The host settles the promise a ResultAsync owns.  ResultAsync attaches no
\* reaction to it: data and err stay as the constructor left them.
Settle(how, v) ==
    /\ rkind = "ResultAsync"
    /\ promise.state = "pending"
    /\ promise' = [state |-> how, val |-> v]
    /\ UNCHANGED <<comp, rkind, data, err, classHandlers, undefinedHandler,
                   nullHandler, invoked, ncalls, registered, last, prev>>

----------------------------------------------------------------------------
(* Inputs *)

Messages == {"msg A", "msg B"}

Sentinels == {Undefined, Null, Class("ClassA"), Class("ClassB")}

\* registration calls: a handler callback, a message, a message with two
\* extra arguments
Registrations ==
    {<<s, Arrow("h1")>> : s \in Sentinels}
      \cup {<<s, Str("msg A")>> : s \in Sentinels}
      \cup {<<s, Str("msg B"), Num("503"), Str("fields")>> : s \in Sentinels}

\* terminal calls
Terminals == {<<Str("fallback message"), Num("503")>>, <<Str("unused")>>}

ExpectArgs == Registrations \cup Terminals

OrArgs == {Num("7"), Arrow("constMinus1"), Arrow("echoSource")}

Stacks == {NoParenStack}

ReturnedValues == {Undefined, Null, Num("42"), Obj("ClassB"), Pending}
ThrownValues   == {Undefined, Num("0"), Obj("Error"), Obj("ClassB")}

Computations ==
    {Computation(Arrow("f"), "returns", v) : v \in ReturnedValues}
      \cup {Computation(Arrow("f"), "throws", e) : e \in ThrownValues}
      \cup {Computation(Pending, "none", Undefined)}

SettledValues  == {Num("42")}
RejectedValues == {Obj("Error")}

----------------------------------------------------------------------------
(* Specification *)

NoComputation == Computation(Undefined, "none", Undefined)

Init ==
    /\ comp = NoComputation
    /\ rkind = "none"
    /\ data = Undefined
    /\ err = Undefined
    /\ classHandlers = <<>>
    /\ undefinedHandler = NoHandler
    /\ nullHandler = NoHandler
    /\ promise = NoPromise
    /\ invoked = 0
    /\ ncalls = 0
    /\ registered = <<>>
    /\ last = NoCall
    /\ prev = NoCall

Next ==
    \/ \E c \in Computations : Execute(c)
    \/ \E v \in SettledValues : Settle("fulfilled", v)
    \/ \E e \in RejectedValues : Settle("rejected", e)
    \/ \E args \in ExpectArgs, stack \in Stacks : Expect(args, stack)
    \/ \E value \in OrArgs, stack \in Stacks : Or(value, stack)

Spec == Init /\ [][Next]_vars

----------------------------------------------------------------------------
(* The same operations on every host: the stack trace may be absent, may
   have fewer than three lines, and the two call sites differ; the values
   handed to the Executor include thenables and functions carrying then and
   catch. *)

AllStacks == {NoStack, ShortStack, ParenStack, NoParenStack}

HostComputations ==
    {Computation(Arrow("f"), "returns", v) :
         v \in {Undefined, Num("42"), Thenable, PromiseFn}}
      \cup {Computation(Arrow("f"), "throws", Obj("Error"))}
      \cup {Computation(Pending, "none", Undefined),
            Computation(Thenable, "none", Undefined),
            Computation(PromiseFn, "returns", Num("42"))}

HostExpectArgs ==
    {<<Undefined, Arrow("h1")>>,
     <<Null, Str("msg A")>>,
     <<Class("ClassA"), Str("msg B"), Num("503"), Str("fields")>>,
     <<Str("unused")>>}

HostOrArgs == {Num("7"), Arrow("constMinus1")}

NextHost ==
    \/ \E c \in HostComputations : Execute(c)
    \/ \E v \in SettledValues : Settle("fulfilled", v)
    \/ \E e \in RejectedValues : Settle("rejected", e)
    \/ \E args \in HostExpectArgs, stack \in AllStacks : Expect(args, stack)
    \/ \E value \in HostOrArgs, stack \in AllStacks : Or(value, stack)

SpecHost == Init /\ [][NextHost]_vars

----------------------------------------------------------------------------
(* What the supplied computation did, and which handler answers for it *)

\* the function threw synchronously (a call of a non-function throws too)
Threw == rkind = "Result" /\ ~isPromise(comp.fn) /\ CallThrows(comp)
ThrownValue == CallThrown(comp)

\* the function returned a value that is no pending computation
Succeeded ==
    rkind = "Result" /\ Callable(comp.fn) /\ comp.does = "returns"
        /\ comp.val.kind # "promise"

\* the class c and the classes it extends
Lineage(c) ==
    CASE c = "ClassB"    -> {"ClassB", "ClassA", "Error"}
      [] c = "ClassA"    -> {"ClassA", "Error"}
      [] c = "TypeError" -> {"TypeError", "Error"}
      [] OTHER           -> {c}

\* v instanceof the class cls
InstanceOf(v, cls) == v.kind = "object" /\ cls.id \in Lineage(v.id)

\* the value v has the shape the sentinel s rejects
Matches(v, s) ==
    CASE s.kind = "undefined" -> v = Undefined
      [] s.kind = "null"      -> v = Null
      [] s.kind = "class"     -> InstanceOf(v, s)
      [] OTHER                -> FALSE

\* the value the handlers are matched against: the thrown value, or the
\* returned one
Subject == IF Threw THEN ThrownValue ELSE comp.val

\* the positions in registration order of the handlers matching v
MatchingHandlers(v) ==
    {i \in 1..Len(registered) : Matches(v, registered[i][1])}

\* the position of the first handler matching v, 0 when there is none
FirstMatch(v) ==
    LET hits == MatchingHandlers(v)
    IN  IF hits = {} THEN 0 ELSE CHOOSE i \in hits : \A j \in hits : i <= j

\* the error the factory of the registration reg makes at the call site stack
FactoryError(reg, stack) ==
    InvokeClosure(Closure(reg, NewContext(stack, err)))

\* the error the Builder makes for the terminal call expect(message, ...extra)
TerminalError(args, stack, source) ==
    Builder([NewContext(stack, source) EXCEPT !.message = Arg(args, 0)],
            Tail(args))

LastIsTerminalExpect == last.op = "expect" /\ IsTerminal(last.args)
LastIsRegistration   == last.op = "expect" /\ IsRegistration(last.args)

----------------------------------------------------------------------------
(* Claims *)

\* C1: when the computation threw e and no registered sentinel handler
\* matches e, the terminal expect(message, ...extraArgs) raises the Builder's
\* error for a Context with that message and source e, with the extra
\* arguments; it does not return normally.
C1_TerminalRaisesBuilderError ==
    (LastIsTerminalExpect /\ Threw /\ FirstMatch(ThrownValue) = 0)
        => /\ last.outcome = "throw"
           /\ last.raised = TerminalError(last.args, last.stack, ThrownValue)

\* C2: when the computation returned a value matching a registered sentinel
\* (undefined, null or an instance of a registered class), the terminal
\* expect raises the error of that sentinel handler's factory, not the error
\* of the terminal call's Builder.
C2_SentinelOnSuccessRaisesHandlerError ==
    (LastIsTerminalExpect /\ Succeeded /\ FirstMatch(comp.val) > 0)
        => /\ last.outcome = "throw"
           /\ last.raised =
                  FactoryError(registered[FirstMatch(comp.val)], last.stack)
           /\ last.raised # TerminalError(last.args, last.stack, err)

\* C3: when the computation threw e (any e, falsy ones included), or(v)
\* returns v itself for a plain v, and handler(ctx) with ctx.source = e for a
\* function v.
C3_OrOnFailureReturnsFallback ==
    (last.op = "or" /\ Threw)
        => /\ last.outcome = "return"
           /\ IF TypeOf(last.args[1]) = "function"
              THEN /\ last.fallbackCalls = 1
                   /\ last.ctx.source = ThrownValue
                   /\ last.val = CallFallback(last.args[1], last.ctx)
              ELSE last.val = last.args[1]

\* C4: when the synchronous computation succeeded, or(fallback) returns the
\* value it produced and never invokes fallback, whatever handlers are
\* registered.
C4_OrOnSuccessReturnsData ==
    (last.op = "or" /\ Succeeded)
        => /\ last.outcome = "return"
           /\ last.ret = "value"
           /\ last.val = comp.val
           /\ last.fallbackCalls = 0

C4_Witness ==
    /\ last.op = "or"
    /\ Succeeded
    /\ comp.val = Num("42")
    /\ TypeOf(last.args[1]) = "function"
    /\ Len(registered) > 0
    /\ last.val = Num("42")

\* C5: handlers are tried in registration order and the first match wins:
\* when the thrown value matches registered handlers, the terminal expect
\* raises the error of the earliest registered of them (after expect(ClassA,
\* ...) then expect(ClassB, ...), a thrown ClassB instance raises the ClassA
\* handler's error).
C5_FirstRegisteredHandlerWins ==
    (LastIsTerminalExpect /\ Threw /\ ThrownValue.kind = "object"
        /\ Cardinality(MatchingHandlers(ThrownValue)) >= 2)
        => /\ last.outcome = "throw"
           /\ last.raised =
                  FactoryError(registered[FirstMatch(ThrownValue)], last.stack)

\* the outcome of a ResultAsync's promise, as the fields of a Result
SettledData == IF promise.state = "fulfilled" THEN promise.val ELSE Undefined
SettledErr  == IF promise.state = "rejected" THEN promise.val ELSE Undefined

\* two calls ended the same way
SameOutcome(a, b) ==
    /\ a.outcome = b.outcome
    /\ a.ret = b.ret
    /\ a.val = b.val
    /\ a.raised = b.raised
    /\ a.ctx = b.ctx
    /\ a.fallbackCalls = b.fallbackCalls

\* two calls are the same operation with the same arguments from the same place
SameCall(a, b) == a.op = b.op /\ a.args = b.args /\ a.stack = b.stack

IsTerminalCall(c) == c.op = "or" \/ (c.op = "expect" /\ IsTerminal(c.args))

\* C6: once the promise a ResultAsync owns has settled, or and expect give
\* the outcome they give on a Result holding the fulfilled value as data, or
\* the rejection reason as the failure; after a rejection or(() => -1)
\* returns -1.
C6_SettledAsyncActsAsResult ==
    (rkind = "ResultAsync" /\ last.op \in {"or", "expect"}
        /\ last.pstate \in {"fulfilled", "rejected"})
        => IF last.op = "or"
           THEN SameOutcome(last, OrOn(SettledData, SettledErr, last.args[1],
                                       last.stack))
           ELSE SameOutcome(last, ExpectOn(SettledData, last.args, last.stack))

\* C7: the Executor never lets an exception of the computation escape, and
\* it returns: for a function that throws e, a Result with no data and e as
\* err; for a pending promise, passed directly or returned by the function, a
\* ResultAsync; for any other returned value, a Result with that data and no
\* err.
C7_ExecutorClassifies ==
    rkind # "none"
        => /\ rkind # "thrown"
           /\ (Callable(comp.fn) /\ comp.does = "throws")
                  => (rkind = "Result" /\ data = Undefined /\ err = comp.val)
           /\ (comp.fn.kind = "promise")
                  => (rkind = "ResultAsync" /\ promise.state # "none")
           /\ (Callable(comp.fn) /\ comp.does = "returns"
                   /\ comp.val.kind = "promise")
                  => (rkind = "ResultAsync" /\ promise.state # "none")
           /\ (Callable(comp.fn) /\ comp.does = "returns"
                   /\ comp.val.kind # "promise")
                  => (rkind = "Result" /\ data = comp.val /\ err = Undefined)

C7_Witness ==
    /\ Callable(comp.fn)
    /\ comp.does = "throws"
    /\ comp.val = Obj("Error")
    /\ rkind = "Result"
    /\ err = Obj("Error")
    /\ ncalls > 0

\* C8: or and the terminal expect leave data and err as they were, and the
\* same terminal operation invoked twice in a row ends the same way both
\* times.
C8_TerminalCallsIdempotent ==
    [][(ncalls' = ncalls + 1 /\ IsTerminalCall(last'))
          => /\ data' = data
             /\ err' = err
             /\ (IsTerminalCall(last) /\ SameCall(last, last'))
                    => SameOutcome(last, last')]_vars

C8_Witness ==
    /\ last.op = "or"
    /\ prev.op = "or"
    /\ SameCall(prev, last)
    /\ Threw
    /\ Truthy(err)
    /\ TypeOf(last.args[1]) = "function"
    /\ last.fallbackCalls = 1
    /\ SameOutcome(prev, last)

\* the handler slot of the Result that answers for the sentinel s holds an
\* entry
Recorded(s) ==
    CASE s.kind = "undefined" -> undefinedHandler.set
      [] s.kind = "null"      -> nullHandler.set
      [] s.kind = "class"     ->
             /\ Len(classHandlers) > 0
             /\ classHandlers[Len(classHandlers)].cls = s
      [] OTHER                -> FALSE

\* C9: a registration call expect(sentinel, messageOrHandler, ...extraArgs),
\* for each of the sentinels undefined, null and a class, records a handler
\* entry for the sentinel and returns the Result itself, not the data.
C9_RegistrationRecordsAndReturnsThis ==
    (LastIsRegistration /\ rkind = "Result")
        => /\ last.outcome = "return"
           /\ last.ret = "this"
           /\ Recorded(last.args[1])

\* C10: no failure is swallowed: a terminal expect on a Result holding a
\* captured failure never returns normally, and every terminal expect either
\* returns the success value of the computation or raises an error.
C10_TerminalNeverSwallowsFailure ==
    (LastIsTerminalExpect /\ rkind = "Result")
        => /\ Threw => last.outcome = "throw"
           /\ \/ last.outcome = "throw"
              \/ (Succeeded /\ last.outcome = "return" /\ last.val = comp.val)

\* C11: when the Result holds a success value matching no registered
\* sentinel, the terminal expect(message, ...extraArgs) returns exactly that
\* value and invokes neither a handler factory nor the Builder.
C11_TerminalOnSuccessReturnsData ==
    (LastIsTerminalExpect /\ Succeeded /\ FirstMatch(comp.val) = 0)
        => /\ last.outcome = "return"
           /\ last.ret = "value"
           /\ last.val = comp.val
           /\ last.handlerCalls = 0
           /\ last.builderCalls = 0

\* C12: the supplied computation is invoked at most once over the life of
\* the Result: the Executor invokes a supplied function exactly once and
\* invokes nothing when handed a pending computation, and no expect or or
\* call invokes it again.
C12_ComputationInvokedOnce ==
    rkind # "none"
        => /\ invoked <= 1
           /\ Callable(comp.fn) => invoked = 1
           /\ comp.fn.kind = "promise" => invoked = 0

C12_Witness ==
    /\ Callable(comp.fn)
    /\ invoked = 1
    /\ ncalls >= 2
    /\ last.op = "or"
    /\ prev.op = "expect"

\* C13: the caller capture never fails: whatever the host's stack trace
\* (absent, fewer than three lines, lines without the separators), expect and
\* or do not raise because of it, and the caller is {file: "", line: 0} when
\* there is no stack trace.
C13_CaptureNeverFails ==
    last.op \in {"expect", "or"}
        => /\ last.raised # CaptureError
           /\ (~last.stack.present /\ last.fallbackCalls = 1)
                  => last.ctx.caller = [file |-> <<"">>, line |-> 0]

\* the closures the Result holds
StoredClosures ==
    {classHandlers[i].fn : i \in 1..Len(classHandlers)}
        \cup {h \in {undefinedHandler, nullHandler} : h.set}

\* C14: the Context given to an error factory or fallback carries a message
\* exactly when the call that made it supplied a literal string message (a
\* message-based registration, or the terminal expect), and none when a
\* callback was supplied (a handler-based registration, a function given to
\* or).
C14_MessageOnlyFromLiteralString ==
    /\ \A fn \in StoredClosures :
           IF fn.mode = "builder"
           THEN fn.ctx.message.kind = "string"
           ELSE fn.ctx.message = Undefined
    /\ (last.op = "or" /\ last.fallbackCalls = 1)
           => last.ctx.message = Undefined
    /\ (LastIsTerminalExpect /\ Threw /\ FirstMatch(ThrownValue) = 0)
           => /\ last.builderCalls = 1
              /\ last.raised.ctx.message = last.args[1]

\* C15: registration is lazy and never raises: a registration call, for any
\* sentinel and with a message or a callback, invokes neither the callback
\* nor the Builder and raises nothing, whatever the state of the Result.
C15_RegistrationNeverRaises ==
    LastIsRegistration
        => /\ last.outcome = "return"
           /\ last.handlerCalls = 0
           /\ last.builderCalls = 0

\* C16: a handler callback stored by a registration receives a Context
\* captured at resolution time: its caller is the call site of the terminal
\* call that resolves the chain, not the call site of the registration.
C16_ContextCapturedAtResolution ==
    (LastIsTerminalExpect /\ ~CaptureThrows(last.stack))
        => \A fn \in StoredClosures :
               fn.mode = "handler"
                   => InvokeClosure(fn).ctx.caller = Caller(last.stack)

\* C17: the handler state is append-only: no expect or or call removes or
\* replaces an entry registered earlier (after expect(undefined, h1) then
\* expect(undefined, h2) the entry of h1 is still there).
C17_HandlersAppendOnly ==
    [][/\ undefinedHandler.set => undefinedHandler' = undefinedHandler
       /\ nullHandler.set => nullHandler' = nullHandler
       /\ Len(classHandlers') >= Len(classHandlers)
       /\ SubSeq(classHandlers', 1, Len(classHandlers)) = classHandlers]_vars

\* the closure held for the sentinel s by the latest registration of s
SlotOf(s) ==
    CASE s.kind = "undefined" -> undefinedHandler
      [] s.kind = "null"      -> nullHandler
      [] s.kind = "class" /\ Len(classHandlers) > 0 ->
             classHandlers[Len(classHandlers)].fn
      [] OTHER                -> NoHandler

\* the arguments of a call after the first two, in their order
ExtraArgs(args) == [i \in 1..(Len(args) - 2) |-> args[i + 2]]

\* C18: a registration with a string message and extra arguments stores a
\* factory that returns the Builder applied to a Context with that message
\* and the captured failure as source, followed by the remaining arguments in
\* their order.
C18_MessageFactoryCallsBuilder ==
    (LastIsRegistration /\ last.outcome = "return"
        /\ last.args[2].kind = "string")
        => /\ SlotOf(last.args[1]).set
           /\ InvokeClosure(SlotOf(last.args[1])) =
                  [by |-> "builder",
                   ctx |-> [caller |-> Caller(last.stack), source |-> err,
                            message |-> last.args[2]],
                   argz |-> ExtraArgs(last.args)]

\* C19: a Result of a synchronous computation holds exactly one of a success
\* value and a captured failure, and a computation that throws is always
\* distinguishable from one that returns, whatever it throws.
C19_ThrowDistinguishableFromReturn ==
    (rkind = "Result" /\ Callable(comp.fn) /\ comp.does = "throws")
        => \A v \in ReturnedValues :
               Executor(Computation(Arrow("f"), "returns", v)).result
                   # [rkind |-> rkind, data |-> data, err |-> err,
                      promise |-> promise]

\* C20: the Executor treats a value as pending exactly when it is a non-null
\* object with a callable then and a callable catch: an object with then and
\* no catch, returned by the computation, becomes the data of a synchronous
\* Result, and a function is never treated as pending.
C20_PendingOnlyWithThenAndCatch ==
    rkind # "none"
        => /\ rkind = "ResultAsync"
                  <=> \/ comp.fn.kind = "promise"
                      \/ /\ Callable(comp.fn)
                         /\ comp.does = "returns"
                         /\ comp.val.kind = "promise"
           /\ (Callable(comp.fn) /\ comp.does = "returns"
                   /\ comp.val.kind \in {"thenable", "promiseFn"})
                  => (rkind = "Result" /\ data = comp.val /\ err = Undefined)
           /\ comp.fn.kind = "promiseFn"
                  => (rkind = "Result" /\ invoked = 1 /\ data = comp.val)

C20_Witness ==
    /\ Callable(comp.fn)
    /\ comp.does = "returns"
    /\ comp.val = Thenable
    /\ rkind = "Result"
    /\ data = Thenable
    /\ ncalls > 0

====
